---- MODULE Spec2Model ----
(***************************************************************************)
(* Shape, channel, device and error behaviour of the parameter-fusing      *)
(* U-Net of src/src/TumorNetSolvers/models/dynamic_Unets.py:               *)
(*   get_network_from_plans_new -> PlainConvUNetNew.__init__ ->            *)
(*   PlainConvUNetNew.forward (encoder, integrateParams, UNetDecoder).     *)
(* A tensor is abstracted to its shape and device:                         *)
(*   [b |-> batch, c |-> channels, sp |-> <<d, h, w>>, dev |-> device].    *)
(* Python lists are 1-based sequences here; a Python index -k is PyNeg.    *)
(***************************************************************************)
EXTENDS Integers, Sequences, FiniteSets, TLC

VARIABLES
    pc,      \* position of the caller: start, ctor_*, ready, fwd_*, failed
    plan,    \* the arguments of get_network_from_plans_new
    args,    \* the keyword arguments PlainConvUNetNew.__init__ receives
    net,     \* the network object: encoder, param_fc, decoder, latent_space_sz
    fwd,     \* the frame of the current (or last) forward call
    res,     \* what the last call returned or raised
    est      \* the last compute_conv_feature_map_size call of the decoder

vars == <<pc, plan, args, net, fwd, res, est>>

-----------------------------------------------------------------------------
(* Bounds of the model.                                                    *)

MaxStages == 3
MaxSize == 4
MaxBatch == 2
MaxFeatures == 2
MaxParamDim == 2

-----------------------------------------------------------------------------
(* Python helpers.                                                         *)

\* seq[-k]
PyNeg(seq, k) == seq[Len(seq) - k + 1]

\* [x] * k
Repeat(x, k) == [i \in 1..k |-> x]

\* seq[::-1]
Reverse(seq) == [i \in 1..Len(seq) |-> seq[Len(seq) - i + 1]]

\* An int-or-list argument: [int |-> TRUE, n |-> value] or
\* [int |-> FALSE, list |-> <<...>>].
IntArg(n) == [int |-> TRUE, n |-> n, list |-> <<>>]
ListArg(l) == [int |-> FALSE, n |-> 0, list |-> l]

\* if isinstance(v, int): v = [v] * k
ExpandIntArg(v, k) == IF v.int THEN Repeat(v.n, k) ELSE v.list

Cube(n) == n * n * n

Prod3(sp) == sp[1] * sp[2] * sp[3]

IsCubic(sp) == sp[1] = sp[2] /\ sp[2] = sp[3]

Devices == {"cpu", "cuda"}

-----------------------------------------------------------------------------
(* Shape arithmetic.                                                       *)

\* [i // s for i, s in zip(size, stride)]
FloorDivShape(size, stride) == [i \in 1..3 |-> size[i] \div stride[i]]

\* The construction-time loop over encoder.strides: every stage's stride is
\* floor-divided out of the expected input shape, first stage included.
RECURSIVE LatentSpatialSize(_, _)
LatentSpatialSize(size, strides) ==
    IF strides = <<>> THEN size
    ELSE LatentSpatialSize(FloorDivShape(size, Head(strides)), Tail(strides))

\* One axis of a convolution with kernel k, stride s, padding (k-1)//2,
\* dilation 1, as the encoder's and decoder's conv blocks are built.
ConvOut(i, k, s) == ((i + 2 * ((k - 1) \div 2) - k) \div s) + 1

ConvShape(sp, k, stride) == [i \in 1..3 |-> ConvOut(sp[i], k, stride[i])]

\* n_conv further convolutions of stride 1 (the tail of a stacked conv block).
RECURSIVE StackedConvShape(_, _, _)
StackedConvShape(sp, kernel, n_conv) ==
    IF n_conv <= 0 THEN sp
    ELSE StackedConvShape(ConvShape(sp, kernel, <<1, 1, 1>>), kernel, n_conv - 1)

\* One axis of the transposed convolution with kernel = stride, no padding.
TranspConvOut(i, s) == (i - 1) * s + s

TranspConvShape(sp, stride) == [i \in 1..3 |-> TranspConvOut(sp[i], stride[i])]

-----------------------------------------------------------------------------
(* get_network_from_plans_new: the registry and the dotted-name lookup.    *)

architecture_classes == {"PlainConvUnetNew"}

\* The dotted names pydoc.locate can import in the modelled environment.
Importable == {"torch.nn.Conv3d", "torch.nn.InstanceNorm3d",
               "torch.nn.Dropout3d", "torch.nn.LeakyReLU"}

\* The class object a dotted name denotes, as distinct from the name itself.
ClassOf(path) == "<class '" \o path \o "'>"

\* pydoc.locate(path): the object, or None when the path names nothing.
Locate(path) == IF path \in Importable THEN ClassOf(path) ELSE "None"

\* The values that are classes (callable); a dotted name left as a str is not.
IsClass(v) == \E path \in Importable : v = ClassOf(path)

OpKeys == {"conv_op", "norm_op", "dropout_op", "nonlin"}

\* for ri in arch_kwargs_req_import:
\*     if architecture_kwargs[ri] is not None:
\*         architecture_kwargs[ri] = pydoc.locate(architecture_kwargs[ri])
ResolveImports(ops, req_import) ==
    [k \in OpKeys |->
        IF k \in req_import /\ ops[k] # "None" THEN Locate(ops[k]) ELSE ops[k]]

\* if deep_supervision is not None:
\*     architecture_kwargs['deep_supervision'] = deep_supervision
OverrideDeepSupervision(kw_ds, override) ==
    IF override = "None" THEN kw_ds ELSE (override = "True")

-----------------------------------------------------------------------------
(* The objects.                                                            *)

NoEncoder == [built |-> FALSE, output_channels |-> <<>>, strides |-> <<>>,
              kernel_sizes |-> <<>>, n_conv_per_stage |-> <<>>,
              conv_op |-> "None", norm_op |-> "None",
              dropout_op |-> "None", nonlin |-> "None", dev |-> "cpu"]

NoLinear == [built |-> FALSE, in_features |-> 0, out_features |-> 0,
             dev |-> "cpu"]

NoDecoder == [built |-> FALSE, stages |-> <<>>, deep_supervision |-> FALSE,
              num_classes |-> 0, param_dim |-> 0, dev |-> "cpu"]

NoNet == [encoder |-> NoEncoder, latent_space_sz |-> 0, param_dim |-> 0,
          param_fc |-> NoLinear, decoder |-> NoDecoder, initialized |-> FALSE]

NoTensor == [b |-> 0, c |-> 0, sp |-> <<0, 0, 0>>, dev |-> "cpu"]

NoFwd == [active |-> FALSE, x |-> NoTensor, param_dev |-> "cpu",
          batch_size |-> 0, skips |-> <<>>, latent_space_sz |-> 0,
          fc_dev_before |-> "cpu", fc_dev |-> "cpu", p |-> NoTensor, lres_input |-> NoTensor,
          s |-> 0, seg_outputs |-> <<>>, trace |-> <<>>]

NoRes == [kind |-> "none", err |-> "", where |-> "", is_list |-> FALSE,
          out |-> <<>>]

NoEst == [done |-> FALSE, input_size |-> <<0, 0, 0>>, skip_sizes |-> <<>>,
          stage_sizes |-> <<>>, seg_terms |-> {}, output |-> 0]

NoPlan == [arch_class_name |-> "", n_stages |-> 0, features_per_stage |-> <<>>,
           kernel_sizes |-> 0, strides |-> <<>>,
           n_conv_per_stage |-> IntArg(0),
           n_conv_per_stage_decoder |-> IntArg(0),
           ops |-> [k \in OpKeys |-> "None"], arch_kwargs_req_import |-> {},
           param_dim |-> 0, kw_deep_supervision |-> FALSE,
           output_channels |-> 0, inputs_shape |-> <<0, 0, 0>>,
           allow_init |-> FALSE, deep_supervision |-> "None"]

NoArgs == [called |-> FALSE, n_stages |-> 0, features_per_stage |-> <<>>,
           kernel_sizes |-> 0, strides |-> <<>>,
           n_conv_per_stage |-> IntArg(0),
           n_conv_per_stage_decoder |-> IntArg(0),
           ops |-> [k \in OpKeys |-> "None"], param_dim |-> 0,
           deep_supervision |-> FALSE, num_classes |-> 0,
           inputs_shape |-> <<0, 0, 0>>]

Raise(err, where) == [kind |-> "error", err |-> err, where |-> where,
                      is_list |-> FALSE, out |-> <<>>]

Init ==
    /\ pc = "start"
    /\ plan = NoPlan
    /\ args = NoArgs
    /\ net = NoNet
    /\ fwd = NoFwd
    /\ res = NoRes
    /\ est = NoEst

-----------------------------------------------------------------------------
(* get_network_from_plans_new, up to the call of the network class.        *)

GetNetworkFromPlans(p) ==
    /\ pc = "start"
    /\ plan' = p
    /\ IF p.arch_class_name \notin architecture_classes
       THEN /\ pc' = "failed"
            /\ res' = Raise("KeyError", "get_network_from_plans_new")
            /\ args' = args
       ELSE /\ pc' = "ctor_args"
            /\ res' = res
            /\ args' = [called |-> TRUE,
                        n_stages |-> p.n_stages,
                        features_per_stage |-> p.features_per_stage,
                        kernel_sizes |-> p.kernel_sizes,
                        strides |-> p.strides,
                        n_conv_per_stage |-> p.n_conv_per_stage,
                        n_conv_per_stage_decoder |-> p.n_conv_per_stage_decoder,
                        ops |-> ResolveImports(p.ops, p.arch_kwargs_req_import),
                        param_dim |-> p.param_dim,
                        deep_supervision |->
                            OverrideDeepSupervision(p.kw_deep_supervision,
                                                    p.deep_supervision),
                        num_classes |-> p.output_channels,
                        inputs_shape |-> p.inputs_shape]
    /\ UNCHANGED <<net, fwd, est>>

-----------------------------------------------------------------------------
(* PlainConvUNetNew.__init__                                               *)

\* The two assertions on the per-stage convolution counts, after an int has
\* been expanded to a list.
CtorArgsOk_encoder_only(a) ==
    Len(ExpandIntArg(a.n_conv_per_stage, a.n_stages)) = a.n_stages

CtorArgsOk(a) ==
    /\ Len(ExpandIntArg(a.n_conv_per_stage, a.n_stages)) = a.n_stages
    /\ Len(ExpandIntArg(a.n_conv_per_stage_decoder, a.n_stages - 1))
         = a.n_stages - 1

CtorCheckArgs ==
    /\ pc = "ctor_args"
    /\ IF CtorArgsOk(args)
       THEN /\ pc' = "ctor_encoder"
            /\ res' = res
            /\ net' = [net EXCEPT !.param_dim = args.param_dim]
       ELSE /\ pc' = "failed"
            /\ res' = Raise("AssertionError", "PlainConvUNetNew.__init__")
            /\ net' = net
    /\ UNCHANGED <<plan, args, fwd, est>>

\* PlainConvEncoder(...): the encoder keeps the per-stage lists it was given
\* and needs a convolution class and one entry per stage; it calls norm_op,
\* dropout_op and nonlin unless they are None, so each is None or a class.
EncoderArgsOk(a) ==
    /\ IsClass(a.ops["conv_op"])
    /\ \A k \in {"norm_op", "dropout_op", "nonlin"} :
          a.ops[k] = "None" \/ IsClass(a.ops[k])
    /\ Len(a.features_per_stage) = a.n_stages
    /\ Len(a.strides) = a.n_stages

CtorEncoder ==
    /\ pc = "ctor_encoder"
    /\ IF EncoderArgsOk(args)
       THEN /\ pc' = "ctor_projector"
            /\ res' = res
            /\ net' = [net EXCEPT !.encoder =
                        [built |-> TRUE,
                         output_channels |-> args.features_per_stage,
                         strides |-> args.strides,
                         kernel_sizes |-> Repeat(args.kernel_sizes, args.n_stages),
                         n_conv_per_stage |->
                             ExpandIntArg(args.n_conv_per_stage, args.n_stages),
                         conv_op |-> args.ops["conv_op"],
                         norm_op |-> args.ops["norm_op"],
                         dropout_op |-> args.ops["dropout_op"],
                         nonlin |-> args.ops["nonlin"],
                         dev |-> "cpu"]]
       ELSE /\ pc' = "failed"
            /\ res' = Raise("EncoderError", "PlainConvEncoder.__init__")
            /\ net' = net
    /\ UNCHANGED <<plan, args, fwd, est>>

\* self.latent_space_sz = latent_spatial_size[0]
LatentSpaceSz_last_axis(inputs_shape, strides) ==
    LatentSpatialSize(inputs_shape, strides)[3]

LatentSpaceSz_skip_first(inputs_shape, strides) ==
    LatentSpatialSize(inputs_shape, Tail(strides))[1]

LatentSpaceSz(inputs_shape, strides) ==
    LatentSpatialSize(inputs_shape, strides)[1]

\* nn.Linear(in_features=param_dim,
\*           out_features=self.latent_space_sz ** 3 * param_dim)
ParamFc(param_dim, latent_space_sz) ==
    [built |-> TRUE, in_features |-> param_dim,
     out_features |-> Cube(latent_space_sz) * param_dim, dev |-> "cpu"]

CtorProjector ==
    /\ pc = "ctor_projector"
    /\ pc' = "ctor_decoder"
    /\ LET sz == LatentSpaceSz(args.inputs_shape, net.encoder.strides)
       IN net' = [net EXCEPT !.latent_space_sz = sz,
                             !.param_fc = ParamFc(args.param_dim, sz)]
    /\ UNCHANGED <<plan, args, fwd, res, est>>

-----------------------------------------------------------------------------
(* UNetDecoder.__init__                                                    *)

\* input_features_below of decoder stage s (s = 1 is the deepest stage, fed
\* by the augmented bottleneck).
InputFeaturesBelow_plain(output_channels, s, param_dim) ==
    PyNeg(output_channels, s)

InputFeaturesBelow(output_channels, s, param_dim) ==
    IF s = 1 THEN PyNeg(output_channels, s) + param_dim
    ELSE PyNeg(output_channels, s)

\* One pass of "for s in range(1, n_stages_encoder)": the transposed
\* convolution, the stacked conv block and the segmentation layer of stage s.
DecoderStageInit(encoder, s, n_conv, num_classes, param_dim) ==
    LET input_features_skip == PyNeg(encoder.output_channels, s + 1)
    IN [transpconv |->
            [in_ch |-> InputFeaturesBelow(encoder.output_channels, s, param_dim),
             out_ch |-> input_features_skip,
             stride |-> PyNeg(encoder.strides, s)],
        conv |->
            [n_conv |-> n_conv,
             in_ch |-> 2 * input_features_skip,
             out_ch |-> input_features_skip,
             kernel |-> PyNeg(encoder.kernel_sizes, s + 1)],
        seg |->
            [in_ch |-> input_features_skip, out_ch |-> num_classes]]

\* assert len(n_conv_per_stage) == n_stages_encoder - 1
DecoderArgsOk(encoder, n_conv_per_stage) ==
    Len(n_conv_per_stage) = Len(encoder.output_channels) - 1

UNetDecoderInit(encoder, num_classes, n_conv_per_stage, deep_supervision, param_dim) ==
    [built |-> TRUE,
     stages |-> [s \in 1..(Len(encoder.output_channels) - 1) |->
                    DecoderStageInit(encoder, s, n_conv_per_stage[s],
                                     num_classes, param_dim)],
     deep_supervision |-> deep_supervision,
     num_classes |-> num_classes,
     param_dim |-> param_dim,
     dev |-> "cpu"]

CtorDecoder ==
    /\ pc = "ctor_decoder"
    /\ LET n_conv == ExpandIntArg(args.n_conv_per_stage_decoder,
                                  args.n_stages - 1)
       IN IF DecoderArgsOk(net.encoder, n_conv)
          THEN /\ pc' = "built"
               /\ res' = res
               /\ net' = [net EXCEPT !.decoder =
                            UNetDecoderInit(net.encoder, args.num_classes,
                                            n_conv, args.deep_supervision,
                                            net.param_dim)]
          ELSE /\ pc' = "failed"
               /\ res' = Raise("AssertionError", "UNetDecoder.__init__")
               /\ net' = net
    /\ UNCHANGED <<plan, args, fwd, est>>

\* if hasattr(network, 'initialize') and allow_init:
\*     network.apply(network.initialize)
\* return network
ReturnNetwork ==
    /\ pc = "built"
    /\ pc' = "ready"
    /\ net' = [net EXCEPT !.initialized = plan.allow_init]
    /\ UNCHANGED <<plan, args, fwd, res, est>>

-----------------------------------------------------------------------------
(* PlainConvUNetNew.forward                                                *)

\* The encoder's skip list: stage j convolves the previous stage's output
\* with stride strides[j] and emits output_channels[j] channels.
RECURSIVE EncoderSkips(_, _, _, _)
EncoderSkips(t, encoder, j, acc) ==
    IF j > Len(encoder.output_channels) THEN acc
    ELSE LET y == [b |-> t.b,
                   c |-> encoder.output_channels[j],
                   sp |-> StackedConvShape(
                            ConvShape(t.sp, encoder.kernel_sizes[j],
                                      encoder.strides[j]),
                            encoder.kernel_sizes[j],
                            encoder.n_conv_per_stage[j] - 1),
                   dev |-> t.dev]
         IN EncoderSkips(y, encoder, j + 1, Append(acc, y))

EncoderForward(x, encoder) == EncoderSkips(x, encoder, 1, <<>>)

\* batch_size = x.size(0); skips = self.encoder(x)
Forward(x, param_dev) ==
    /\ pc = "ready"
    /\ IF x.dev # net.encoder.dev
       THEN /\ pc' = "ready"
            /\ res' = Raise("DeviceError", "encoder")
            /\ fwd' = [NoFwd EXCEPT !.x = x, !.param_dev = param_dev,
                                    !.batch_size = x.b]
       ELSE /\ pc' = "fwd_encoded"
            /\ res' = NoRes
            /\ fwd' = [NoFwd EXCEPT !.active = TRUE, !.x = x,
                                    !.param_dev = param_dev,
                                    !.batch_size = x.b,
                                    !.skips = EncoderForward(x, net.encoder)]
    /\ est' = NoEst
    /\ UNCHANGED <<plan, args, net>>

-----------------------------------------------------------------------------
(* PlainConvUNetNew.integrateParams                                        *)

\* self.param_fc = self.param_fc.to(skips[-1].device)
MigrateParamFc_stay(param_fc, device) == param_fc

MigrateParamFc(param_fc, device) == [param_fc EXCEPT !.dev = device]

\* tensor.view(shape) succeeds exactly when the element counts agree.
ViewOk(numel, shape) ==
    numel = shape[1] * shape[2] * shape[3] * shape[4] * shape[5]

\* torch.cat((a, b), dim=1) needs equal sizes on every other dimension.
CatOk(a, b) == a.b = b.b /\ a.sp = b.sp /\ a.dev = b.dev

Cat(a, b) == [b |-> a.b, c |-> a.c + b.c, sp |-> a.sp, dev |-> a.dev]

\* z_cat = torch.cat((skips[-1], p), dim=1); skips[-1] = z_cat
FuseSkips_append(skips, p) == Append(skips, Cat(PyNeg(skips, 1), p))

FuseSkips(skips, p) == [skips EXCEPT ![Len(skips)] = Cat(@, p)]

\* latent_space_sz = skips[-1].shape[-1]
\* self.integrateParams(param, latent_space_sz, skips, batch_size)
IntegrateParams ==
    /\ pc = "fwd_encoded"
    /\ LET bottleneck == PyNeg(fwd.skips, 1)
           latent_space_sz == bottleneck.sp[3]
           param == [b |-> fwd.batch_size, n |-> net.param_dim,
                     dev |-> bottleneck.dev]
           fc == MigrateParamFc(net.param_fc, bottleneck.dev)
           numel == param.b * fc.out_features
           shape == <<fwd.batch_size, param.n, latent_space_sz,
                      latent_space_sz, latent_space_sz>>
           p == [b |-> shape[1], c |-> shape[2],
                 sp |-> <<shape[3], shape[4], shape[5]>>, dev |-> fc.dev]
           seen == [fwd EXCEPT !.latent_space_sz = latent_space_sz,
                               !.param_dev = param.dev,
                               !.fc_dev_before = net.param_fc.dev,
                               !.fc_dev = fc.dev]
       IN /\ net' = [net EXCEPT !.param_fc = fc]
          /\ IF fc.dev # param.dev
             THEN /\ pc' = "ready"
                  /\ res' = Raise("DeviceError", "integrateParams.param_fc")
                  /\ fwd' = seen
             ELSE IF ~ViewOk(numel, shape)
             THEN /\ pc' = "ready"
                  /\ res' = Raise("ShapeError", "integrateParams.view")
                  /\ fwd' = seen
             ELSE IF ~CatOk(bottleneck, p)
             THEN /\ pc' = "ready"
                  /\ res' = Raise("ShapeError", "integrateParams.cat")
                  /\ fwd' = [seen EXCEPT !.p = p]
             ELSE /\ pc' = "fwd_fused"
                  /\ res' = res
                  /\ fwd' = [seen EXCEPT !.p = p,
                                         !.skips = FuseSkips(fwd.skips, p)]
    /\ UNCHANGED <<plan, args, est>>

-----------------------------------------------------------------------------
(* UNetDecoder.forward                                                     *)

\* lres_input = skips[-1]; seg_outputs = []
DecoderEnter ==
    /\ pc = "fwd_fused"
    /\ pc' = "fwd_decode"
    /\ fwd' = [fwd EXCEPT !.lres_input = PyNeg(fwd.skips, 1),
                          !.s = 0, !.seg_outputs = <<>>, !.trace = <<>>]
    /\ UNCHANGED <<plan, args, net, res, est>>

\* The stages (0-based s of n) at which forward applies a segmentation layer.
AppliesSegLayer_first(deep_supervision, s, n) == deep_supervision \/ s = 0

AppliesSegLayer(deep_supervision, s, n) == deep_supervision \/ s = n - 1

\* The skip tensor concatenated at stage s: skips[-(s+2)].
MirroredSkip(skips, s) == PyNeg(skips, s + 2)

\* One pass of "for s in range(len(self.stages))".
DecoderStage ==
    /\ pc = "fwd_decode"
    /\ fwd.s < Len(net.decoder.stages)
    /\ LET s == fwd.s
           n == Len(net.decoder.stages)
           st == net.decoder.stages[s + 1]
           lres == fwd.lres_input
           up == [b |-> lres.b, c |-> st.transpconv.out_ch,
                  sp |-> TranspConvShape(lres.sp, st.transpconv.stride),
                  dev |-> lres.dev]
           skip == MirroredSkip(fwd.skips, s)
           xcat == Cat(up, skip)
           x == [b |-> xcat.b, c |-> st.conv.out_ch,
                 sp |-> StackedConvShape(
                          ConvShape(xcat.sp, st.conv.kernel, <<1, 1, 1>>),
                          st.conv.kernel, st.conv.n_conv - 1),
                 dev |-> xcat.dev]
           seg == AppliesSegLayer(net.decoder.deep_supervision, s, n)
           seg_out == [b |-> x.b, c |-> st.seg.out_ch,
                       sp |-> ConvShape(x.sp, 1, <<1, 1, 1>>), dev |-> x.dev]
           fail(err, where) ==
               /\ pc' = "ready"
               /\ res' = Raise(err, where)
               /\ fwd' = fwd
       IN IF lres.dev # net.decoder.dev
          THEN fail("DeviceError", "decoder")
          ELSE IF lres.c # st.transpconv.in_ch
          THEN fail("ChannelError", "decoder.transpconv")
          ELSE IF ~CatOk(up, skip)
          THEN fail("ShapeError", "decoder.cat")
          ELSE IF xcat.c # st.conv.in_ch
          THEN fail("ChannelError", "decoder.stage")
          ELSE IF seg /\ x.c # st.seg.in_ch
          THEN fail("ChannelError", "decoder.seg_layer")
          ELSE /\ pc' = "fwd_decode"
               /\ res' = res
               /\ fwd' = [fwd EXCEPT
                     !.lres_input = x,
                     !.s = s + 1,
                     !.seg_outputs = IF seg THEN Append(@, seg_out) ELSE @,
                     !.trace = Append(@, [lres_c |-> lres.c,
                                          cat_c |-> xcat.c,
                                          skip_c |-> skip.c,
                                          skip_sp |-> skip.sp,
                                          seg |-> seg])]
    /\ UNCHANGED <<plan, args, net, est>>

\* seg_outputs = seg_outputs[::-1]
\* r = seg_outputs[0] if not deep_supervision else seg_outputs
DecoderResult_unreversed(seg_outputs, deep_supervision) ==
    [kind |-> "ok", err |-> "", where |-> "", is_list |-> deep_supervision,
     out |-> IF deep_supervision THEN seg_outputs ELSE <<seg_outputs[1]>>]

DecoderResult(seg_outputs, deep_supervision) ==
    [kind |-> "ok", err |-> "", where |-> "", is_list |-> deep_supervision,
     out |-> IF deep_supervision THEN Reverse(seg_outputs)
             ELSE <<Reverse(seg_outputs)[1]>>]

DecoderReturn ==
    /\ pc = "fwd_decode"
    /\ fwd.s = Len(net.decoder.stages)
    /\ pc' = "ready"
    /\ res' = IF fwd.seg_outputs = <<>> /\ ~net.decoder.deep_supervision
              THEN Raise("IndexError", "decoder.seg_outputs")
              ELSE DecoderResult(fwd.seg_outputs, net.decoder.deep_supervision)
    /\ UNCHANGED <<plan, args, net, fwd, est>>

-----------------------------------------------------------------------------
(* UNetDecoder.compute_conv_feature_map_size                               *)

\* skip_sizes: the input size floor-divided by the strides of encoder
\* stages 0 .. len(strides) - 2, cumulatively.
RECURSIVE SkipSizes(_, _, _)
SkipSizes(size, strides, k) ==
    IF k >= Len(strides) THEN <<>>
    ELSE LET next == FloorDivShape(size, strides[k])
         IN <<next>> \o SkipSizes(next, strides, k + 1)

\* The size the estimate uses for decoder stage s (0-based): skip_sizes[-(s+1)]
StageSize_forward_order(skip_sizes, s) == skip_sizes[s + 1]

StageSize(skip_sizes, s) == PyNeg(skip_sizes, s + 1)

\* The terms added for stage s: the conv block (n_conv convolutions of
\* stride 1), the transposed convolution and, where counted, the seg layer.
StageTerms(decoder, encoder, skip_sizes, s) ==
    LET st == decoder.stages[s + 1]
        size == StageSize(skip_sizes, s)
        n == Len(decoder.stages)
    IN   (IF st.conv.n_conv <= 1 THEN 1 ELSE st.conv.n_conv)
            * st.conv.out_ch * Prod3(size)
       + PyNeg(encoder.output_channels, s + 2) * Prod3(size)
       + (IF decoder.deep_supervision \/ s = n - 1
          THEN decoder.num_classes * Prod3(size) ELSE 0)

RECURSIVE SumTerms(_, _, _, _)
SumTerms(decoder, encoder, skip_sizes, s) ==
    IF s >= Len(decoder.stages) THEN 0
    ELSE StageTerms(decoder, encoder, skip_sizes, s)
         + SumTerms(decoder, encoder, skip_sizes, s + 1)

ComputeConvFeatureMapSize(input_size) ==
    /\ pc = "ready"
    /\ LET skip_sizes == SkipSizes(input_size, net.encoder.strides, 1)
           n == Len(net.decoder.stages)
       IN IF Len(skip_sizes) # n
          THEN /\ res' = Raise("AssertionError", "compute_conv_feature_map_size")
               /\ est' = NoEst
          ELSE /\ res' = res
               /\ est' = [done |-> TRUE,
                          input_size |-> input_size,
                          skip_sizes |-> skip_sizes,
                          stage_sizes |-> [s \in 1..n |->
                                             StageSize(skip_sizes, s - 1)],
                          seg_terms |-> {s \in 0..(n - 1) :
                               net.decoder.deep_supervision \/ s = n - 1},
                          output |-> SumTerms(net.decoder, net.encoder,
                                              skip_sizes, 0)]
    /\ UNCHANGED <<pc, plan, args, net, fwd>>

-----------------------------------------------------------------------------
(* nn.Module.to(device) on the network or on one of its sub-modules.  The   *)
(* decoder holds the encoder as a registered sub-module (self.encoder =     *)
(* encoder), so moving the decoder moves the encoder with it.               *)

ModuleTo(which, device) ==
    /\ pc = "ready"
    /\ net' = [net EXCEPT
          !.encoder.dev = IF which \in {"network", "encoder", "decoder"}
                          THEN device ELSE @,
          !.decoder.dev = IF which \in {"network", "decoder"} THEN device ELSE @,
          !.param_fc.dev = IF which \in {"network", "param_fc"} THEN device ELSE @]
    /\ UNCHANGED <<pc, plan, args, fwd, res, est>>

-----------------------------------------------------------------------------
(* The plans and inputs the specifications draw from.                      *)

StrideChoices == {<<1, 1, 1>>, <<2, 2, 2>>, <<1, 2, 2>>}

\* Spatial shapes <<a, b, b>> with axes in 1..MaxSize.
Shapes == {<<a, b, b>> : a \in 1..MaxSize, b \in 1..MaxSize}

\* Expected input shapes given at construction: cubic, or twice as large in
\* plane as in depth.
CtorShapes == {<<a, a, a>> : a \in 1..MaxSize}
              \cup {sp \in Shapes : sp[2] = 2 * sp[1]}

ValidOps == [conv_op |-> "torch.nn.Conv3d", norm_op |-> "None",
             dropout_op |-> "None", nonlin |-> "torch.nn.LeakyReLU"]

RECURSIVE Pow2(_)
Pow2(k) == IF k <= 0 THEN 1 ELSE 2 * Pow2(k - 1)

\* Stage 1 keeps the resolution, every later stage halves it.
StandardStrides(n) == [i \in 1..n |-> IF i = 1 THEN <<1, 1, 1>> ELSE <<2, 2, 2>>]

StandardFeatures(n) == [i \in 1..n |-> i + 1]

\* A cube that the standard strides reduce to a 2^3 bottleneck.
StandardShape(n) == <<Pow2(n), Pow2(n), Pow2(n)>>

StandardPlan(n) ==
    [arch_class_name |-> "PlainConvUnetNew", n_stages |-> n,
     features_per_stage |-> StandardFeatures(n), kernel_sizes |-> 3,
     strides |-> StandardStrides(n),
     n_conv_per_stage |-> IntArg(2), n_conv_per_stage_decoder |-> IntArg(2),
     ops |-> ValidOps, arch_kwargs_req_import |-> OpKeys,
     param_dim |-> 2, kw_deep_supervision |-> FALSE, output_channels |-> 2,
     inputs_shape |-> StandardShape(n), allow_init |-> TRUE,
     deep_supervision |-> "None"]

\* The documented scenario: 64^3 input, 5 stages, param_dim 5, 3 classes;
\* with every stage of stride 2, and with the first stage of stride 1.
ScenarioStrides == {Repeat(<<2, 2, 2>>, 5), StandardStrides(5)}

ScenarioShape == <<64, 64, 64>>

ScenarioPlans ==
    {[StandardPlan(5) EXCEPT !.strides = st, !.param_dim = 5,
                             !.output_channels = 3,
                             !.inputs_shape = ScenarioShape,
                             !.deep_supervision = ds] :
        st \in ScenarioStrides, ds \in {"None", "True"}}

\* Spatial behaviour: strides, expected and actual input shapes vary.
ShapePlan(n, st, sh, ds) ==
    [StandardPlan(n) EXCEPT !.strides = st, !.inputs_shape = sh,
                            !.deep_supervision = ds]

ShapeInputs ==
    {[b |-> b, c |-> 1, sp |-> sp, dev |-> "cpu"] :
        b \in 1..MaxBatch, sp \in Shapes}
    \cup {[b |-> 1, c |-> 1, sp |-> ScenarioShape, dev |-> "cpu"]}

\* The sizes compute_conv_feature_map_size is asked about: the expected
\* input shape and the shape of the last forward input.
EstSizes == {args.inputs_shape} \cup (IF fwd.x.b > 0 THEN {fwd.x.sp} ELSE {})

Construction ==
    \/ CtorCheckArgs
    \/ CtorEncoder
    \/ CtorProjector
    \/ CtorDecoder
    \/ ReturnNetwork

ForwardSteps ==
    \/ IntegrateParams
    \/ DecoderEnter
    \/ DecoderStage
    \/ DecoderReturn

\* The first forward call on a freshly built network.  A call's result
\* depends on earlier calls only through the projector's device, which
\* SpecDev follows over sequences of calls.
FirstForward(x, param_dev) == fwd.x.b = 0 /\ Forward(x, param_dev)

Next ==
    \/ pc = "start" /\ \E n \in 2..MaxStages :
          \E st \in [1..n -> StrideChoices], sh \in CtorShapes,
             ds \in {"None", "True"} :
             GetNetworkFromPlans(ShapePlan(n, st, sh, ds))
    \/ pc = "start" /\ \E p \in ScenarioPlans : GetNetworkFromPlans(p)
    \/ Construction
    \/ pc = "ready" /\ \E x \in ShapeInputs : FirstForward(x, "cpu")
    \/ ForwardSteps
    \/ pc = "ready" /\ \E sz \in EstSizes : ComputeConvFeatureMapSize(sz)

Spec == Init /\ [][Next]_vars

-----------------------------------------------------------------------------
(* SpecChan: channel bookkeeping.  Per-stage feature widths, param_dim and *)
(* the class count vary; the geometry is the standard one.                 *)

ClassCounts == {1, 3}

ChanPlan(n, f, pd, nc, ds) ==
    [StandardPlan(n) EXCEPT !.features_per_stage = f, !.param_dim = pd,
                            !.output_channels = nc, !.deep_supervision = ds]

ChanInputs ==
    {[b |-> b, c |-> 1, sp |-> StandardShape(n), dev |-> "cpu"] :
        b \in 1..MaxBatch, n \in 2..MaxStages}

NextChan ==
    \/ pc = "start" /\ \E n \in 2..MaxStages :
          \E f \in [1..n -> 1..MaxFeatures], pd \in 1..MaxParamDim,
             nc \in ClassCounts, ds \in {"None", "True"} :
             GetNetworkFromPlans(ChanPlan(n, f, pd, nc, ds))
    \/ Construction
    \/ pc = "ready" /\ \E x \in ChanInputs : FirstForward(x, "cpu")
    \/ ForwardSteps
    \/ pc = "ready" /\ \E sz \in EstSizes : ComputeConvFeatureMapSize(sz)

SpecChan == Init /\ [][NextChan]_vars

-----------------------------------------------------------------------------
(* SpecCtor: the factory and the constructor's argument checks.            *)

RegistryNames == {"PlainConvUnetNew", "ResidualEncoderUNet"}

\* Dotted names as a plan may spell them: importable, absent (None), or
\* naming nothing.
OpSpellings ==
    [conv_op : {"torch.nn.Conv3d", "torch.nn.Conv9d"},
     norm_op : {"torch.nn.InstanceNorm3d", "None", "torch.nn.InstanceNorm9d"},
     dropout_op : {"None", "torch.nn.Dropout3d", "torch.nn.Dropout9d"},
     nonlin : {"torch.nn.LeakyReLU", "torch.nn.LeakyRelu"}]

ConvCountArgs(lens) == {IntArg(2)} \cup {ListArg(Repeat(2, k)) : k \in lens}

\* The keys a plan may list for import: all of them, some, or none.
ReqImports == {OpKeys, {"conv_op", "nonlin"}, {"conv_op"}, {}}

CtorPlan(n, name, ops, req, nce, ncd, init, kwds, ds) ==
    [StandardPlan(n) EXCEPT !.arch_class_name = name,
                            !.ops = ops,
                            !.arch_kwargs_req_import = req,
                            !.n_conv_per_stage = nce,
                            !.n_conv_per_stage_decoder = ncd,
                            !.allow_init = init,
                            !.kw_deep_supervision = kwds,
                            !.deep_supervision = ds]

NextCtor ==
    \/ pc = "start" /\ \E n \in 2..MaxStages :
          \E name \in RegistryNames, ops \in OpSpellings, req \in ReqImports,
             nce \in ConvCountArgs({n - 1, n}),
             ncd \in ConvCountArgs(0..MaxStages),
             init \in BOOLEAN, kwds \in BOOLEAN,
             ds \in {"None", "True", "False"} :
             GetNetworkFromPlans(CtorPlan(n, name, ops, req, nce, ncd, init,
                                          kwds, ds))
    \/ Construction
    \/ pc = "ready" /\ \E x \in ChanInputs : FirstForward(x, "cpu")
    \/ ForwardSteps
    \/ pc = "ready" /\ \E sz \in EstSizes : ComputeConvFeatureMapSize(sz)

SpecCtor == Init /\ [][NextCtor]_vars

-----------------------------------------------------------------------------
(* SpecDev: sequences of forward calls and module moves across devices.    *)

DevPlans ==
    {[StandardPlan(2) EXCEPT !.deep_supervision = ds] : ds \in {"None", "True"}}

DevInputs ==
    {[b |-> 1, c |-> 1, sp |-> sp, dev |-> d] :
        sp \in {StandardShape(2), <<1, 1, 1>>}, d \in Devices}

Modules == {"network", "encoder", "decoder", "param_fc"}

NextDev ==
    \/ pc = "start" /\ \E p \in DevPlans : GetNetworkFromPlans(p)
    \/ Construction
    \/ pc = "ready" /\ \E x \in DevInputs, d \in Devices : Forward(x, d)
    \/ ForwardSteps
    \/ pc = "ready" /\ \E m \in Modules, d \in Devices : ModuleTo(m, d)

SpecDev == Init /\ [][NextDev]_vars

-----------------------------------------------------------------------------
(* Properties.                                                             *)

Ones == <<1, 1, 1>>

\* A forward call has returned a value.
Returned == pc = "ready" /\ res.kind = "ok"

DeepSupervision == net.decoder.deep_supervision

OutSizes == [i \in 1..Len(res.out) |-> res.out[i].sp]

Times(sp, stride) == [i \in 1..3 |-> sp[i] * stride[i]]

\* C1 (as stated): with deep supervision disabled, whatever the strides, a
\* returned output is a single map of the input's spatial size.
C1_AnyStridesFullResolution ==
    (Returned /\ ~DeepSupervision) =>
        /\ ~res.is_list
        /\ res.out[1].sp = fwd.x.sp

\* C1 (amended): with deep supervision disabled a returned output is a single
\* map with num_classes channels whose spatial size is that of the first
\* skip; it is the input's spatial size when the first encoder stage has
\* stride 1.
C1_FullResolution ==
    (Returned /\ ~DeepSupervision) =>
        /\ ~res.is_list
        /\ Len(res.out) = 1
        /\ res.out[1].c = args.num_classes
        /\ res.out[1].b = fwd.x.b
        /\ res.out[1].sp = fwd.skips[1].sp
        /\ (args.strides[1] = Ones => res.out[1].sp = fwd.x.sp)

C1_Witness ==
    /\ Returned /\ ~DeepSupervision
    /\ args.n_stages = 3
    /\ args.strides = StandardStrides(3)
    /\ fwd.x.sp = <<4, 4, 4>>
    /\ res.out[1].sp = <<4, 4, 4>>

\* b is coarser than a: no axis finer, some axis strictly coarser.
StrictlyCoarser(b, a) ==
    /\ \A i \in 1..3 : b[i] <= a[i]
    /\ \E i \in 1..3 : b[i] < a[i]

EachStageStride2 ==
    /\ args.called
    /\ args.n_stages = 5
    /\ args.strides = Repeat(<<2, 2, 2>>, 5)
    /\ args.inputs_shape = ScenarioShape
    /\ args.param_dim = 5

FirstStageStride1 ==
    /\ args.called
    /\ args.n_stages = 5
    /\ args.strides = StandardStrides(5)
    /\ args.inputs_shape = ScenarioShape
    /\ args.param_dim = 5

Cubes(sizes) == [i \in 1..Len(sizes) |-> <<sizes[i], sizes[i], sizes[i]>>]

\* C2 (as stated): under deep supervision the output is a list of
\* n_stages - 1 maps of num_classes channels, the first at input resolution,
\* each later one strictly coarser; 64^3 with 5 stages each of stride 2
\* gives sizes 64, 32, 16, 8.
C2_FirstFullThenStrictlyCoarser ==
    (Returned /\ DeepSupervision) =>
        /\ res.is_list
        /\ Len(res.out) = args.n_stages - 1
        /\ \A i \in 1..Len(res.out) : res.out[i].c = args.num_classes
        /\ res.out[1].sp = fwd.x.sp
        /\ \A i \in 1..(Len(res.out) - 1) :
              StrictlyCoarser(res.out[i + 1].sp, res.out[i].sp)
        /\ (EachStageStride2 /\ fwd.x.sp = ScenarioShape
              => OutSizes = Cubes(<<64, 32, 16, 8>>))

\* C2 (amended): under deep supervision the output is a list of
\* n_stages - 1 maps of num_classes channels; the first has the first skip's
\* size (the input's when the first stage has stride 1) and map i is
\* map i+1 scaled by the stride of encoder stage i+1 (strictly coarser only
\* where that stride exceeds 1).  64^3 with 5 stages gives 64, 32, 16, 8
\* when the first stage has stride 1, and 32, 16, 8, 4 when every stage has
\* stride 2.
C2_DeepSupervisionOutputs ==
    (Returned /\ DeepSupervision) =>
        /\ res.is_list
        /\ Len(res.out) = args.n_stages - 1
        /\ \A i \in 1..Len(res.out) : res.out[i].c = args.num_classes
        /\ res.out[1].sp = fwd.skips[1].sp
        /\ (args.strides[1] = Ones => res.out[1].sp = fwd.x.sp)
        /\ \A i \in 1..(Len(res.out) - 1) :
              /\ res.out[i].sp = Times(res.out[i + 1].sp, args.strides[i + 1])
              /\ (\A a \in 1..3 : args.strides[i + 1][a] > 1)
                    => StrictlyCoarser(res.out[i + 1].sp, res.out[i].sp)
        /\ (FirstStageStride1 /\ fwd.x.sp = ScenarioShape
              => OutSizes = Cubes(<<64, 32, 16, 8>>))
        /\ (EachStageStride2 /\ fwd.x.sp = ScenarioShape
              => OutSizes = Cubes(<<32, 16, 8, 4>>))

C2_Witness ==
    /\ Returned /\ DeepSupervision
    /\ FirstStageStride1
    /\ fwd.x.sp = ScenarioShape
    /\ Len(res.out) = 4
    /\ OutSizes = Cubes(<<64, 32, 16, 8>>)

-----------------------------------------------------------------------------

Bottleneck == PyNeg(fwd.skips, 1)

\* C3: integrateParams changes only the last skip: its channel count grows
\* by exactly param_dim, the list keeps one entry per encoder stage, every
\* other entry is unchanged; a failing integrateParams changes no entry.
C3_FusionFrame ==
    [][/\ (pc = "fwd_encoded" /\ pc' = "fwd_fused") =>
            /\ Len(fwd.skips') = Len(fwd.skips)
            /\ Len(fwd.skips') = Len(net.encoder.output_channels)
            /\ PyNeg(fwd.skips', 1).c = PyNeg(fwd.skips, 1).c + args.param_dim
            /\ PyNeg(fwd.skips', 1).c =
                  PyNeg(net.encoder.output_channels, 1) + args.param_dim
            /\ PyNeg(fwd.skips', 1).sp = PyNeg(fwd.skips, 1).sp
            /\ PyNeg(fwd.skips', 1).b = PyNeg(fwd.skips, 1).b
            /\ \A i \in 1..(Len(fwd.skips) - 1) : fwd.skips'[i] = fwd.skips[i]
       /\ (pc = "fwd_encoded" /\ pc' = "ready") => fwd.skips' = fwd.skips
      ]_vars

C3_Witness ==
    /\ pc = "fwd_fused"
    /\ Len(fwd.skips) = 3
    /\ args.param_dim = 2
    /\ net.encoder.output_channels = <<2, 1, 1>>
    /\ Bottleneck.c = 3
    /\ fwd.skips[1].c = 2

\* C4: at every decoder stage the running tensor entering the transposed
\* convolution has the channel count it was built for (for the first stage
\* output_channels[-1] + param_dim), and the concatenation with the mirrored
\* skip has 2 x skip_channels channels, the input width of the stage's conv
\* block; no stage fails on a channel count.
C4_ChannelInvariant ==
    /\ res.err # "ChannelError"
    /\ (pc = "fwd_decode" /\ fwd.s < Len(net.decoder.stages)) =>
          fwd.lres_input.c = net.decoder.stages[fwd.s + 1].transpconv.in_ch
    /\ (pc = "fwd_decode" /\ fwd.s = 0) =>
          fwd.lres_input.c =
              PyNeg(args.features_per_stage, 1) + args.param_dim
    /\ \A i \in 1..Len(fwd.trace) :
          /\ fwd.trace[i].skip_c = PyNeg(args.features_per_stage, i + 1)
          /\ fwd.trace[i].cat_c = 2 * fwd.trace[i].skip_c
          /\ fwd.trace[i].cat_c = net.decoder.stages[i].conv.in_ch
          /\ fwd.trace[i].lres_c = net.decoder.stages[i].transpconv.in_ch

C4_Witness ==
    /\ Returned
    /\ Len(fwd.trace) = 2
    /\ args.features_per_stage = <<1, 2, 1>>
    /\ args.param_dim = 2
    /\ fwd.trace[1].lres_c = 3
    /\ fwd.trace[1].cat_c = 4
    /\ fwd.trace[2].cat_c = 2

\* C5 (as stated): 64^3, 5 stages each of stride 2, param_dim 5: the
\* projector is sized for a bottleneck of 4 per axis, has 4^3 * 5 outputs and
\* its reshaped output is (batch, 5, 4, 4, 4).
C5_EachStride2Gives4 ==
    EachStageStride2 =>
        /\ net.param_fc.built =>
              /\ net.latent_space_sz = 4
              /\ net.param_fc.out_features = Cube(4) * 5
        /\ (fwd.x.sp = ScenarioShape /\ pc = "fwd_fused") =>
              /\ fwd.p.c = 5
              /\ fwd.p.sp = <<4, 4, 4>>

\* C5 (amended): 64^3, 5 stages, param_dim 5.  With every stage of stride 2
\* the projector is sized for 2 per axis (64 / 2^5), has 2^3 * 5 = 40 outputs
\* and reshapes to (batch, 5, 2, 2, 2); with the first stage of stride 1 and
\* the other four of stride 2 it is sized for 4 per axis (64 / 2^4), has
\* 4^3 * 5 = 320 outputs and reshapes to (batch, 5, 4, 4, 4).
C5_ScenarioProjector ==
    /\ EachStageStride2 =>
        /\ net.param_fc.built =>
              /\ net.latent_space_sz = 2
              /\ net.param_fc.in_features = 5
              /\ net.param_fc.out_features = 40
        /\ (fwd.x.sp = ScenarioShape /\ pc \in {"fwd_encoded", "ready"}) =>
              res.kind # "error"
        /\ (fwd.x.sp = ScenarioShape /\ pc = "fwd_fused") =>
              fwd.p = [b |-> fwd.x.b, c |-> 5, sp |-> <<2, 2, 2>>, dev |-> "cpu"]
    /\ FirstStageStride1 =>
        /\ net.param_fc.built =>
              /\ net.latent_space_sz = 4
              /\ net.param_fc.in_features = 5
              /\ net.param_fc.out_features = 320
        /\ (fwd.x.sp = ScenarioShape /\ pc \in {"fwd_encoded", "ready"}) =>
              res.kind # "error"
        /\ (fwd.x.sp = ScenarioShape /\ pc = "fwd_fused") =>
              fwd.p = [b |-> fwd.x.b, c |-> 5, sp |-> <<4, 4, 4>>, dev |-> "cpu"]

C5_Witness ==
    /\ EachStageStride2
    /\ pc = "fwd_fused"
    /\ fwd.x.sp = ScenarioShape
    /\ net.param_fc.out_features = 40
    /\ fwd.p.sp = <<2, 2, 2>>
    /\ fwd.p.c = 5

\* The size D the claim names: the first axis of inputs_shape floor-divided
\* by every encoder stage's stride.
RECURSIVE FirstAxisFloor(_, _, _)
FirstAxisFloor(a, strides, k) ==
    IF k > Len(strides) THEN a
    ELSE FirstAxisFloor(a \div strides[k][1], strides, k + 1)

ExpectedD == FirstAxisFloor(args.inputs_shape[1], args.strides, 1)

BottleneckFits == IsCubic(Bottleneck.sp) /\ Bottleneck.sp[1] = ExpectedD

IntegrateShapeError ==
    /\ res.kind = "error"
    /\ res.err = "ShapeError"
    /\ res.where \in {"integrateParams.view", "integrateParams.cat"}

\* C6: a forward call whose bottleneck is not cubic, or not of per-axis size
\* D, ends in a shape error raised by the projector's view or by the
\* concatenation of integrateParams and returns nothing; a call whose
\* bottleneck is cubic of size D raises no such error.
C6_BottleneckMismatch ==
    /\ (pc \in {"fwd_fused", "fwd_decode"}) => BottleneckFits
    /\ (pc = "ready" /\ fwd.active /\ ~BottleneckFits) =>
          IntegrateShapeError /\ res.out = <<>>
    /\ (pc = "ready" /\ fwd.active /\ BottleneckFits) => ~IntegrateShapeError
    /\ Returned => BottleneckFits

C6_Witness ==
    /\ pc = "ready"
    /\ fwd.active
    /\ ~IsCubic(Bottleneck.sp)
    /\ Bottleneck.sp[3] = ExpectedD
    /\ res.where = "integrateParams.cat"

-----------------------------------------------------------------------------

\* The constructor was given a list for n_conv_per_stage_decoder whose length
\* is not n_stages - 1.
WrongDecoderList ==
    /\ args.called
    /\ ~args.n_conv_per_stage_decoder.int
    /\ Len(args.n_conv_per_stage_decoder.list) # args.n_stages - 1

NothingBuilt ==
    /\ ~net.encoder.built
    /\ ~net.param_fc.built
    /\ ~net.decoder.built
    /\ fwd = NoFwd

\* C7: a constructor call with an n_conv_per_stage_decoder list of the wrong
\* length fails with an assertion error of PlainConvUNetNew.__init__ before
\* the encoder, the projector or the decoder exists and before any forward
\* computation.
C7_WrongLengthFailsFirst ==
    WrongDecoderList =>
        /\ pc \in {"ctor_args", "failed"}
        /\ NothingBuilt
        /\ pc = "failed" =>
              /\ res.kind = "error"
              /\ res.err = "AssertionError"
              /\ res.where = "PlainConvUNetNew.__init__"

C7_Witness ==
    /\ WrongDecoderList
    /\ args.n_conv_per_stage.int
    /\ Len(args.n_conv_per_stage_decoder.list) = args.n_stages
    /\ pc = "failed"
    /\ res.err = "AssertionError"
    /\ NothingBuilt

\* A key of arch_kwargs_req_import holds a dotted name that names nothing.
UnresolvableReference ==
    \E k \in plan.arch_kwargs_req_import :
        plan.ops[k] # "None" /\ plan.ops[k] \notin Importable

\* C8: the factory fails, and returns no network, when the architecture name
\* is not in the registry and when a required import is a dotted name that
\* cannot be resolved; no network is built with that option turned into None.
C8_UnresolvedIsAnError ==
    /\ (pc # "start" /\ plan.arch_class_name \notin architecture_classes) =>
          pc = "failed" /\ res.kind = "error" /\ NothingBuilt
    /\ (pc # "start" /\ UnresolvableReference) =>
          /\ pc \notin {"built", "ready", "fwd_encoded", "fwd_fused", "fwd_decode"}
          /\ ~net.decoder.built

-----------------------------------------------------------------------------

ForwardPcs == {"fwd_encoded", "fwd_fused", "fwd_decode"}

\* A step of a forward call (as opposed to a module move, which changes net
\* alone, and to construction).
ForwardStep ==
    /\ pc \in ForwardPcs \cup {"ready"}
    /\ (pc' # pc \/ fwd' # fwd \/ res' # res)
    /\ est' = est \/ est' = NoEst
    /\ ~(pc = "ready" /\ pc' = "ready" /\ fwd' = fwd)

\* C9: when the projector's affine map is applied, its weights and the
\* parameter vector are on the bottleneck's device; a forward call moves the
\* projector only to the bottleneck's device and not at all when it is there
\* already; a forward call moves neither the encoder nor the decoder.
C9_ProjectorFollowsDevice ==
    /\ [](/\ res.where # "integrateParams.param_fc"
          /\ (pc \in {"fwd_fused", "fwd_decode"}
                \/ (pc = "ready" /\ res.where \in {"integrateParams.view",
                                                   "integrateParams.cat"})) =>
                /\ fwd.fc_dev = Bottleneck.dev
                /\ fwd.param_dev = Bottleneck.dev
                /\ Bottleneck.dev = fwd.x.dev
          /\ pc = "fwd_fused" => net.param_fc.dev = Bottleneck.dev)
    /\ [][ForwardStep =>
            /\ net.encoder.dev' = net.encoder.dev
            /\ net.decoder.dev' = net.decoder.dev
            /\ net.param_fc.dev' # net.param_fc.dev =>
                  /\ pc = "fwd_encoded"
                  /\ net.param_fc.dev' = Bottleneck.dev
            /\ (pc = "fwd_encoded" /\ net.param_fc.dev = Bottleneck.dev) =>
                  net.param_fc' = net.param_fc
          ]_vars

C9_Witness ==
    /\ pc = "fwd_fused"
    /\ fwd.x.dev = "cuda"
    /\ fwd.fc_dev_before = "cpu"
    /\ fwd.fc_dev = "cuda"
    /\ net.param_fc.dev = "cuda"
    /\ net.decoder.dev = "cpu"

-----------------------------------------------------------------------------

\* The estimate and the last forward call are about the same input size.
EstimateOfForward == est.done /\ fwd.active /\ est.input_size = fwd.x.sp

\* The stages (0-based) at which the forward call applied a segmentation layer.
SegStages == {i - 1 : i \in {j \in 1..Len(fwd.trace) : fwd.trace[j].seg}}

\* Encoder strides 1..k divide the input size exactly, stage after stage.
RECURSIVE DividesExactly(_, _, _, _)
DividesExactly(size, strides, j, k) ==
    IF j > k THEN TRUE
    ELSE /\ \A a \in 1..3 : size[a] % strides[j][a] = 0
         /\ DividesExactly(FloorDivShape(size, strides[j]), strides, j + 1, k)

\* C10 (as stated): for every input size the size the estimate attributes to
\* decoder stage s is the size of the skip a forward call concatenated at
\* stage s, there is one derived size per decoder stage, and a segmentation
\* term is counted exactly at the stages where forward applies a segmentation
\* layer.
C10_EstimateMatchesAnyInput ==
    EstimateOfForward =>
        /\ Len(est.skip_sizes) = Len(net.decoder.stages)
        /\ \A s \in 0..(Len(fwd.trace) - 1) :
              est.stage_sizes[s + 1] = fwd.trace[s + 1].skip_sp
        /\ Returned => est.seg_terms = SegStages

\* C10 (amended): as stated, for the input sizes that the strides of encoder
\* stages 0..k divide exactly stage after stage (which covers every decoder
\* stage of a forward call that returns with a first stage of stride 1);
\* elsewhere the estimate floors where the encoder's padded convolutions
\* round up.
C10_EstimateConsistent ==
    EstimateOfForward =>
        /\ Len(est.skip_sizes) = Len(net.decoder.stages)
        /\ Len(est.stage_sizes) = Len(net.decoder.stages)
        /\ \A s \in 0..(Len(net.decoder.stages) - 1) :
              DividesExactly(fwd.x.sp, args.strides, 1,
                             Len(net.decoder.stages) - s) =>
                  est.stage_sizes[s + 1] = MirroredSkip(fwd.skips, s).sp
        /\ Returned =>
              /\ est.seg_terms = SegStages
              /\ \A s \in 0..(Len(net.decoder.stages) - 1) :
                    args.strides[1] = Ones =>
                        est.stage_sizes[s + 1] = fwd.trace[s + 1].skip_sp

C10_Witness ==
    /\ EstimateOfForward
    /\ Returned
    /\ args.n_stages = 3
    /\ args.strides = StandardStrides(3)
    /\ DeepSupervision
    /\ est.stage_sizes = <<<<2, 2, 2>>, <<4, 4, 4>>>>
    /\ est.seg_terms = {0, 1}
    /\ fwd.trace[1].skip_sp = <<2, 2, 2>>

====
